---- MODULE Spec2Model ----
(***************************************************************************)
(* rtasks: an event-sourced task/project list (project.rs), the Database   *)
(* mutation API over it (database.rs) and the key-driven pane/cursor       *)
(* navigation of the terminal UI (main.rs).                                *)
(*                                                                         *)
(* Two programs share the data model:                                      *)
(*   Spec        the key loop of main.rs (handle_user_input, its handlers) *)
(*   SpecDB      a caller of the methods of database.rs, with valid        *)
(*               indices, who answers an Err by calling save() again       *)
(*   SpecAddSet  that caller, restricted to add_project, add_task,         *)
(*               set_task_state and save                                   *)
(*   SpecAll     either of the two programs                                *)
(*   SpecEvents  Database::task_state on a loaded task                     *)
(*   SpecTwo     two instances that add projects and tasks to one document *)
(* Rust vectors are 0-based; TLA+ sequences are 1-based: At(s, i) reads    *)
(* the element the code calls s[i].                                        *)
(***************************************************************************)
EXTENDS Integers, Sequences, FiniteSets, TLC

VARIABLES
    projects,         \* Vec<Project> held in memory
    disk,             \* the backing document ~/.tasks/projects.json
    context,          \* main.rs: the active Context
    project_context,  \* main.rs: the remembered Project Context
    status,           \* main.rs: "running", "quit", "io_error" (Err returned), "panicked"
    fault,            \* main.rs: what the last loop iteration did with an index
    call,             \* database.rs: the last method call and what it returned
    entered_from,     \* history: the Context enter_context was last called on
    peer              \* Vec<Project> held in memory by a second running instance

vars == <<projects, disk, context, project_context, status, fault, call, entered_from,
          peer>>

----------------------------------------------------------------------------
(* Bounds of the model *)

MaxProjects == 2   \* projects in the store
MaxTasks == 2      \* tasks in the store, over all its projects
MaxChanges == 1    \* State events in the store beyond those Task::new seeds

(* Program constants *)

HEADER_OFFSET == 2
U16 == 2 ^ 16
I16_HALF == 2 ^ 15

----------------------------------------------------------------------------
(* Option<T>: None is the empty sequence, Some(x) the one-element sequence *)

None == <<>>
Some(x) == <<x>>

At(s, i) == s[i + 1]
InRange(s, i) == i >= 0 /\ i < Len(s)

Min(a, b) == IF a <= b THEN a ELSE b
Max(a, b) == IF a >= b THEN a ELSE b

Remove(s, i) == SubSeq(s, 1, i) \o SubSeq(s, i + 2, Len(s))
Swap(s, i, j) == [s EXCEPT ![i + 1] = s[j + 1], ![j + 1] = s[i + 1]]

----------------------------------------------------------------------------
(* project.rs: State, Event, Task, Project *)

States == {"ONGOING", "TODO", "DONE"}

\* #[derive(Ord)] compares the variants by their declaration order
StateOrd(s) == CASE s = "ONGOING" -> 0 [] s = "TODO" -> 1 [] s = "DONE" -> 2

State_next(s) == CASE s = "TODO" -> "ONGOING" [] s = "ONGOING" -> "DONE" [] s = "DONE" -> "DONE"

State_previous(s) == CASE s = "TODO" -> "TODO" [] s = "ONGOING" -> "TODO" [] s = "DONE" -> "ONGOING"

\* Timestamps are written from Utc::now() and read only by the renderer.
\* Event.date_time is left out; Task.created_at is kept as a field, and the
\* clock read at creation is the ordinal that also serves as the task's id.
StateEvent(s) == [kind |-> "State", data |-> s]

DescriptionEvent(d) == [kind |-> "Description", data |-> d]

CommentEvent(d) == [kind |-> "Comment", data |-> d]

\* (mutant) the Description event is not seeded
Task_new_state_only(id, description) ==
    [id |-> id, created_at |-> id, events |-> <<StateEvent("TODO")>>]

Task_new(id, description) ==
    [id |-> id, created_at |-> id,
     events |-> <<StateEvent("TODO"), DescriptionEvent(description)>>]

Project_new(id, description) ==
    [id |-> id, description |-> description, notes |-> "", tasks |-> <<>>]

RECURSIVE FoldState(_, _)
FoldState(events, acc) ==
    IF events = <<>> THEN acc
    ELSE FoldState(Tail(events),
                   IF Head(events).kind = "State" THEN Head(events).data ELSE acc)

\* (mutant) the first State event decides, not the last
Task_state_first(task) ==
    LET states == SelectSeq(task.events, LAMBDA e : e.kind = "State")
    IN  IF states = <<>> THEN "TODO" ELSE Head(states).data

Task_state(task) == FoldState(task.events, "TODO")

\* (mutant) the seeded State event is rewritten in place
push_state_in_place(task, s) == [task EXCEPT !.events[1] = StateEvent(s)]

push_state(task, s) == [task EXCEPT !.events = Append(@, StateEvent(s))]

\* the comparator of sort_tasks: a.state().cmp(&b.state()) is Greater
\* (mutant) equal states compare Greater too: the sort is no longer stable
cmp_greater_or_equal(a, b) == StateOrd(Task_state(a)) >= StateOrd(Task_state(b))

cmp_greater(a, b) == StateOrd(Task_state(a)) > StateOrd(Task_state(b))

\* slice::sort_by is a stable sort; on short slices it is an insertion sort
\* that moves an element left only past elements that compare Greater.
RECURSIVE insert_tail(_, _)
insert_tail(sorted, t) ==
    IF sorted = <<>> THEN <<t>>
    ELSE IF cmp_greater(sorted[Len(sorted)], t)
         THEN Append(insert_tail(SubSeq(sorted, 1, Len(sorted) - 1), t), sorted[Len(sorted)])
         ELSE Append(sorted, t)

RECURSIVE sort_from(_, _)
sort_from(sorted, rest) ==
    IF rest = <<>> THEN sorted
    ELSE sort_from(insert_tail(sorted, Head(rest)), Tail(rest))

sort_tasks(tasks) == sort_from(<<>>, tasks)

RECURSIVE position_from(_, _, _)
position_from(tasks, task_id, i) ==
    IF i >= Len(tasks) THEN None
    ELSE IF At(tasks, i).id = task_id THEN Some(i)
    ELSE position_from(tasks, task_id, i + 1)

task_position(tasks, task_id) == position_from(tasks, task_id, 0)

----------------------------------------------------------------------------
(* The backing document: serde_json::to_string of Vec<Project>.  Event is   *)
(* internally tagged (tag = "type", rename_all = "lowercase").              *)

TypeTag(kind) ==
    CASE kind = "State" -> "state"
      [] kind = "Description" -> "description"
      [] kind = "Comment" -> "comment"

EventJson(e) == [type |-> TypeTag(e.kind), data |-> e.data]

TaskJson(t) ==
    [id |-> t.id, created_at |-> t.created_at,
     events |-> [i \in 1..Len(t.events) |-> EventJson(t.events[i])]]

ProjectJson(p) ==
    [id |-> p.id, description |-> p.description, notes |-> p.notes,
     tasks |-> [i \in 1..Len(p.tasks) |-> TaskJson(p.tasks[i])]]

to_string(ps) == [i \in 1..Len(ps) |-> ProjectJson(ps[i])]

\* (mutant) the file is created but the content is not written
Written_empty(ps) == [whole |-> TRUE, doc |-> <<>>]

\* the file after a completed fs::write
Written(ps) == [whole |-> TRUE, doc |-> to_string(ps)]

\* fs::write creates/truncates the file and then writes: a failure leaves the
\* file as it was (the open failed) or truncated/partially written.
FailedWrite(old) == {old, [whole |-> FALSE, doc |-> <<>>]}

----------------------------------------------------------------------------
(* main.rs: Context and the index it denotes *)

Project(line, len) == [variant |-> "Project", line |-> line, len |-> len]
Task(line, len) == [variant |-> "Task", line |-> line, len |-> len]

\* Context::idx: (index - HEADER_OFFSET - 1) as usize on u16.  Below row
\* HEADER_OFFSET + 1 the subtraction overflows: a panic when the build checks
\* overflow, the wrapped value otherwise.
idx_underflow(c) == c.line - HEADER_OFFSET - 1 < 0
idx(c) == (c.line - HEADER_OFFSET - 1) % U16

\* `x as i16`
as_i16(x) == LET m == x % U16 IN IF m >= I16_HALF THEN m - U16 ELSE m

----------------------------------------------------------------------------
(* Outcome of one handler: the values the key loop holds when the handler    *)
(* returns (or unwinds), and what was observed on the way.                  *)
(*   write:  "none", "ok", or "failed" (save_database returned Err)         *)
(*   status: "running", "io_error" (the ? operator returned the Err out of  *)
(*           handle_user_input), "panicked"                                 *)

Outcome(ps, c, pc) ==
    [projects |-> ps, context |-> c, project_context |-> pc,
     status |-> "running", write |-> "none", acted |-> FALSE,
     underflow |-> FALSE, out_of_range |-> FALSE]

Panicked(o, underflow, out_of_range) ==
    [o EXCEPT !.status = "panicked", !.underflow = underflow,
              !.out_of_range = out_of_range]

\* save_database(projects)? followed by Ok(new_context)
Saved(o, ps, c, save_ok) ==
    IF save_ok
    THEN [o EXCEPT !.projects = ps, !.context = c, !.write = "ok", !.acted = TRUE]
    ELSE [o EXCEPT !.projects = ps, !.write = "failed", !.acted = TRUE,
                   !.status = "io_error"]

\* get_input_line: the description typed, or None on Esc / end of input
RECURSIVE read_keys(_, _)
read_keys(keys, description) ==
    IF keys = <<>> THEN None
    ELSE CASE Head(keys) = "Esc" -> None
           [] Head(keys) = "Enter" -> Some(description)
           [] Head(keys) = "Backspace" ->
                read_keys(Tail(keys),
                          IF description = "" THEN description
                          ELSE SubSeq(description, 1, Len(description) - 1))
           [] OTHER -> read_keys(Tail(keys), description \o Head(keys))

\* (mutant) Esc ends the entry like Enter with an empty draft
get_input_line_esc_accepts(keys) ==
    LET result == read_keys(keys, "") IN IF result = None THEN Some("") ELSE result

get_input_line(keys) == read_keys(keys, "")

\* (mutant) past the last row the cursor wraps to the first
next_line_wraps(c) ==
    [c EXCEPT !.line = IF c.line + 1 > c.len + HEADER_OFFSET THEN HEADER_OFFSET + 1
                       ELSE c.line + 1]

next_line(c) == [c EXCEPT !.line = Min(c.len + HEADER_OFFSET, c.line + 1)]

previous_line(c) == [c EXCEPT !.line = Max(HEADER_OFFSET + 1, c.line - 1)]

\* (mutant) the cursor stays on its slot after a swap
swap_rows_context_stay(c, neighbor) == c

\* the Context swap_rows returns after a swap
swap_rows_context(c, neighbor) == [c EXCEPT !.line = neighbor + HEADER_OFFSET + 1]

swap_rows(c, pc, command, ps, checks, save_ok) ==
    LET o == Outcome(ps, c, pc)
        uf == idx_underflow(c)
        i == idx(c)
        neighbor == as_i16(i) + (IF command = "J" THEN 1 ELSE -1)
        seen == [o EXCEPT !.underflow = uf]
    IN  IF uf /\ checks THEN Panicked(o, TRUE, FALSE)
        ELSE IF ~(neighbor >= 0 /\ neighbor < as_i16(c.len)) THEN seen
        ELSE IF c.variant = "Project"
        THEN IF ~InRange(ps, i) \/ ~InRange(ps, neighbor)
             THEN Panicked(o, uf, TRUE)
             ELSE Saved(seen, Swap(ps, i, neighbor), swap_rows_context(c, neighbor), save_ok)
        ELSE LET p == idx(pc) IN
             IF idx_underflow(pc) /\ checks THEN Panicked(o, TRUE, FALSE)
             ELSE IF ~InRange(ps, p) THEN Panicked(o, uf \/ idx_underflow(pc), TRUE)
             ELSE IF ~InRange(At(ps, p).tasks, i) \/ ~InRange(At(ps, p).tasks, neighbor)
             THEN Panicked(o, uf \/ idx_underflow(pc), TRUE)
             ELSE Saved([seen EXCEPT !.underflow = uf \/ idx_underflow(pc)],
                        [ps EXCEPT ![p + 1].tasks = Swap(@, i, neighbor)],
                        swap_rows_context(c, neighbor), save_ok)

enter_context(c, pc, ps, checks) ==
    IF c.variant = "Project"
    THEN LET o == Outcome(ps, c, c)   \* *project_context = *context comes first
             i == idx(c)
         IN  IF idx_underflow(c) /\ checks THEN Panicked(o, TRUE, FALSE)
             ELSE IF ~InRange(ps, i) THEN Panicked(o, idx_underflow(c), TRUE)
             ELSE [o EXCEPT !.context = Task(HEADER_OFFSET + 1, Len(At(ps, i).tasks)),
                            !.acted = TRUE, !.underflow = idx_underflow(c)]
    ELSE Outcome(ps, c, pc)

\* (mutant) leaving goes back to the first row of the Project pane
leave_context_first_row(c, pc, ps) ==
    IF c.variant = "Task"
    THEN [Outcome(ps, Project(HEADER_OFFSET + 1, pc.len), pc) EXCEPT !.acted = TRUE]
    ELSE Outcome(ps, c, pc)

leave_context(c, pc, ps) ==
    IF c.variant = "Task"
    THEN [Outcome(ps, pc, pc) EXCEPT !.acted = TRUE]
    ELSE Outcome(ps, c, pc)

\* the Context add_line returns after a push
add_line_context(c, size) == [c EXCEPT !.line = size + HEADER_OFFSET + 1, !.len = size + 1]

add_line(c, pc, ps, keys, id, checks, save_ok) ==
    LET o == Outcome(ps, c, pc)
        description == get_input_line(keys)
    IN  IF description = None THEN o
        ELSE IF c.variant = "Task"
        THEN LET p == idx(pc) IN
             IF idx_underflow(pc) /\ checks THEN Panicked(o, TRUE, FALSE)
             ELSE IF ~InRange(ps, p) THEN Panicked(o, idx_underflow(pc), TRUE)
             ELSE Saved([o EXCEPT !.underflow = idx_underflow(pc)],
                        [ps EXCEPT ![p + 1].tasks = Append(@, Task_new(id, description[1]))],
                        add_line_context(c, c.len), save_ok)
        ELSE Saved(o, Append(ps, Project_new(id, description[1])),
                   add_line_context(c, c.len), save_ok)

\* (mutant) the length is not decremented after a removal
delete_context_same_len(c) == [c EXCEPT !.line = c.line - 1]

\* the Context delete_current_line returns after a removal
delete_context(c) == [c EXCEPT !.line = c.line - 1, !.len = c.len - 1]

delete_current_line(c, pc, ps, checks, save_ok) ==
    LET o == Outcome(ps, c, pc)
        i == idx(c)
    IN  IF ~(c.len > 0) THEN o
        ELSE IF c.variant = "Project"
        THEN IF idx_underflow(c) /\ checks THEN Panicked(o, TRUE, FALSE)
             ELSE IF ~InRange(ps, i) THEN Panicked(o, idx_underflow(c), TRUE)
             ELSE Saved(o, Remove(ps, i), delete_context(c), save_ok)
        ELSE LET p == idx(pc) IN
             IF idx_underflow(pc) /\ checks THEN Panicked(o, TRUE, FALSE)
             ELSE IF ~InRange(ps, p) THEN Panicked(o, idx_underflow(pc), TRUE)
             ELSE IF idx_underflow(c) /\ checks THEN Panicked(o, TRUE, FALSE)
             ELSE IF ~InRange(At(ps, p).tasks, i)
             THEN Panicked(o, idx_underflow(c) \/ idx_underflow(pc), TRUE)
             ELSE Saved([o EXCEPT !.underflow = idx_underflow(pc)],
                        [ps EXCEPT ![p + 1].tasks = Remove(@, i)],
                        delete_context(c), save_ok)

\* (mutant) '>' takes a TODO task straight to DONE
stepped_state_skips(change, current_state) ==
    CASE change = ">" -> "DONE"
      [] change = "<" ->
           (CASE current_state = "DONE" -> "ONGOING"
              [] current_state = "ONGOING" -> "TODO"
              [] OTHER -> current_state)
      [] OTHER -> "TODO"

\* the match on `change` in change_status
stepped_state(change, current_state) ==
    CASE change = ">" ->
           (CASE current_state = "TODO" -> "ONGOING"
              [] current_state = "ONGOING" -> "DONE"
              [] OTHER -> current_state)
      [] change = "<" ->
           (CASE current_state = "DONE" -> "ONGOING"
              [] current_state = "ONGOING" -> "TODO"
              [] OTHER -> current_state)
      [] OTHER -> "TODO"

\* the branch of change_status taken when next_state != current_state
push_and_save(o, ps, p, i, next_state, save_ok) ==
    Saved(o, [ps EXCEPT ![p + 1].tasks[i + 1] = push_state(@, next_state)],
          o.context, save_ok)

change_status(c, pc, ps, change, checks, save_ok) ==
    LET o == Outcome(ps, c, pc)
        p == idx(pc)
        i == idx(c)
    IN  IF c.variant # "Task" THEN o
        ELSE IF idx_underflow(pc) /\ checks THEN Panicked(o, TRUE, FALSE)
        ELSE IF ~InRange(ps, p) THEN Panicked(o, idx_underflow(pc), TRUE)
        ELSE IF idx_underflow(c) /\ checks THEN Panicked(o, TRUE, FALSE)
        ELSE IF ~InRange(At(ps, p).tasks, i)
        THEN Panicked(o, idx_underflow(c) \/ idx_underflow(pc), TRUE)
        ELSE LET current_state == Task_state(At(At(ps, p).tasks, i))
                 next_state == stepped_state(change, current_state)
             IN  IF next_state # current_state
                 THEN push_and_save(o, ps, p, i, next_state, save_ok)
                 ELSE o

\* top of the loop in handle_user_input: the Task pane is drawn from
\* projects[project_context.idx()]
redraw(o, checks) ==
    IF o.status # "running" \/ o.context.variant # "Task" THEN o
    ELSE IF idx_underflow(o.project_context) /\ checks THEN Panicked(o, TRUE, FALSE)
    ELSE IF ~InRange(o.projects, idx(o.project_context))
    THEN Panicked(o, o.underflow \/ idx_underflow(o.project_context), TRUE)
    ELSE o

----------------------------------------------------------------------------
(* Ids: Uuid::new_v4() yields an id no live entity has.  Project ids and    *)
(* task ids are never compared with each other, so each kind draws from    *)
(* its own numbers.                                                         *)

ProjectIds(ps) == {ps[i].id : i \in 1..Len(ps)}

TaskIds(ps) == UNION {{ps[i].tasks[j].id : j \in 1..Len(ps[i].tasks)} : i \in 1..Len(ps)}

new_v4(used) == CHOOSE n \in 1..(Cardinality(used) + 1) :
                    n \notin used /\ \A m \in 1..(n - 1) : m \in used

RECURSIVE SumLen(_, _)
SumLen(ps, i) == IF i > Len(ps) THEN 0 ELSE Len(ps[i].tasks) + SumLen(ps, i + 1)

TaskCount(ps) == SumLen(ps, 1)

StateEvents(task) == Len(SelectSeq(task.events, LAMBDA e : e.kind = "State"))

RECURSIVE SumChanges(_, _, _)
SumChanges(ps, i, j) ==
    IF i > Len(ps) THEN 0
    ELSE IF j > Len(ps[i].tasks) THEN SumChanges(ps, i + 1, 1)
    ELSE (StateEvents(ps[i].tasks[j]) - 1) + SumChanges(ps, i, j + 1)

ChangeCount(ps) == SumChanges(ps, 1, 1)

\* the bounds of the model on what may still be created
RoomFor(before, after, changes) ==
    IF before = after THEN TRUE
    ELSE /\ Len(after) > Len(before) => Len(before) < MaxProjects
         /\ TaskCount(after) > TaskCount(before) => TaskCount(before) < MaxTasks
         /\ ChangeCount(after) > ChangeCount(before) => ChangeCount(before) < changes

----------------------------------------------------------------------------
(* main.rs: handle_user_input.  One step is one iteration of its loop: a    *)
(* key is read, its handler runs, and the pane is drawn again.              *)

Fault(o) == [underflow |-> o.underflow, out_of_range |-> o.out_of_range]

NoFault == [underflow |-> FALSE, out_of_range |-> FALSE]

NoCall ==
    [op |-> "load", project |-> -1, task |-> -1, other |-> -1, state |-> "",
     ok |-> TRUE, write |-> "none", ret |-> None]

\* main() and handle_user_input up to the first read of a key, on the
\* document "[]"
Init ==
    /\ projects = <<>>
    /\ disk = Written(projects)
    /\ context = Project(HEADER_OFFSET + 1, Len(projects))
    /\ project_context = Project(HEADER_OFFSET + 1, Len(projects))
    /\ status = "running"
    /\ fault = NoFault
    /\ call = NoCall
    /\ entered_from = context
    /\ peer = projects

\* what the user may type at the prompt of add_line
InputLines == {<<"a", "Esc">>, <<"b", "Backspace", "a", "Enter">>}

\* The process ends (q, an Err returned out of main, a panic): what it held in
\* memory is gone, the document stays.
Exit(how, o) ==
    /\ projects' = <<>>
    /\ context' = Project(HEADER_OFFSET + 1, 0)
    /\ project_context' = Project(HEADER_OFFSET + 1, 0)
    /\ entered_from' = Project(HEADER_OFFSET + 1, 0)
    /\ status' = how
    /\ fault' = Fault(o)
    /\ UNCHANGED <<call, peer>>

\* Whether an overflowing u16 subtraction panics or wraps is the build's
\* choice (overflow-checks); it matters only where Context::idx can overflow.
OverflowChecks ==
    IF idx_underflow(context) \/ idx_underflow(project_context) THEN BOOLEAN ELSE {TRUE}

Return(op, handled, checks) ==
    LET o == redraw(handled, checks) IN
    /\ status = "running"
    /\ RoomFor(projects, o.projects, MaxChanges)
    /\ disk' \in (CASE o.write = "ok" -> {Written(o.projects)}
                    [] o.write = "failed" -> FailedWrite(disk)
                    [] OTHER -> {disk})
    /\ IF o.status = "running"
       THEN /\ projects' = o.projects
            /\ context' = o.context
            /\ project_context' = o.project_context
            /\ status' = o.status
            /\ fault' = Fault(o)
            /\ entered_from' = IF op = "enter_context" /\ context.variant = "Project"
                               THEN context ELSE entered_from
            /\ UNCHANGED <<call, peer>>
       ELSE Exit(o.status, o)

KeyQuit ==
    /\ status = "running"
    /\ Exit("quit", NoFault)
    /\ UNCHANGED disk

KeyDown ==
    Return("next_line", Outcome(projects, next_line(context), project_context), TRUE)

KeyUp ==
    Return("previous_line", Outcome(projects, previous_line(context), project_context), TRUE)

\* save_database fails only where it is called
Reached(o, save_ok) == save_ok \/ o.write = "failed"

Swapped(command, save_ok, checks) ==
    LET o == swap_rows(context, project_context, command, projects, checks, save_ok)
    IN  Reached(o, save_ok) /\ Return("swap_rows", o, checks)

KeySwap ==
    \E command \in {"J", "K"}, save_ok \in BOOLEAN, checks \in OverflowChecks :
        Swapped(command, save_ok, checks)

KeyEnter ==
    \E checks \in OverflowChecks :
        Return("enter_context", enter_context(context, project_context, projects, checks),
               checks)

KeyEsc ==
    Return("leave_context", leave_context(context, project_context, projects), TRUE)

Changed(change, save_ok, checks) ==
    LET o == change_status(context, project_context, projects, change, checks, save_ok)
    IN  Reached(o, save_ok) /\ Return("change_status", o, checks)

KeyChange ==
    \E change \in {">", "<"}, save_ok \in BOOLEAN, checks \in OverflowChecks :
        Changed(change, save_ok, checks)

KeyDelete ==
    \E save_ok \in BOOLEAN, checks \in OverflowChecks :
        LET o == delete_current_line(context, project_context, projects, checks, save_ok)
        IN  Reached(o, save_ok) /\ Return("delete_current_line", o, checks)

Added(keys, save_ok, checks) ==
    LET id == new_v4(IF context.variant = "Task" THEN TaskIds(projects)
                     ELSE ProjectIds(projects))
        o == add_line(context, project_context, projects, keys, id, checks, save_ok)
    IN  Reached(o, save_ok) /\ Return("add_line", o, checks)

KeyAdd ==
    \E keys \in InputLines, save_ok \in BOOLEAN, checks \in OverflowChecks :
        Added(keys, save_ok, checks)

Next ==
    \/ KeyQuit
    \/ KeyDown
    \/ KeyUp
    \/ KeySwap
    \/ KeyEnter
    \/ KeyEsc
    \/ KeyChange
    \/ KeyDelete
    \/ KeyAdd

Spec == Init /\ [][Next]_vars

----------------------------------------------------------------------------
(* database.rs: the methods of Database, on self.projects = ps.  A method   *)
(* yields the projects it leaves in memory, what it did to the document    *)
(* (write: "none", "ok", "failed") and its Result: ok = FALSE is Err(e),    *)
(* otherwise ret is the Option<usize> (None also stands for Ok(())).        *)

\* self.save()?; Ok(ret)
Done(ps, save_ok, ret) ==
    [projects |-> ps, write |-> IF save_ok THEN "ok" ELSE "failed",
     ok |-> save_ok, ret |-> IF save_ok THEN ret ELSE None]

save(ps, save_ok) == Done(ps, save_ok, None)

\* (mutant) the State event is pushed whether or not the state differs
set_task_state_unconditional(ps, project, task, state, save_ok) ==
    LET pushed == [ps EXCEPT ![project + 1].tasks[task + 1] = push_state(@, state)]
        task_id == At(At(pushed, project).tasks, task).id
        sorted == [pushed EXCEPT ![project + 1].tasks = sort_tasks(@)]
    IN  Done(sorted, save_ok, task_position(At(sorted, project).tasks, task_id))

\* (mutant) the position returned is the index the caller passed in
set_task_state_same_index(ps, project, task, state, save_ok) ==
    IF state # Task_state(At(At(ps, project).tasks, task))
    THEN LET pushed == [ps EXCEPT ![project + 1].tasks[task + 1] = push_state(@, state)]
             sorted == [pushed EXCEPT ![project + 1].tasks = sort_tasks(@)]
         IN  Done(sorted, save_ok, Some(task))
    ELSE [projects |-> ps, write |-> "none", ok |-> TRUE, ret |-> None]

\* (mutant) the document is rewritten also when the state does not change
set_task_state_always_saves(ps, project, task, state, save_ok) ==
    IF state # Task_state(At(At(ps, project).tasks, task))
    THEN LET pushed == [ps EXCEPT ![project + 1].tasks[task + 1] = push_state(@, state)]
             task_id == At(At(pushed, project).tasks, task).id
             sorted == [pushed EXCEPT ![project + 1].tasks = sort_tasks(@)]
         IN  Done(sorted, save_ok, task_position(At(sorted, project).tasks, task_id))
    ELSE Done(ps, save_ok, None)

set_task_state(ps, project, task, state, save_ok) ==
    IF state # Task_state(At(At(ps, project).tasks, task))
    THEN LET pushed == [ps EXCEPT ![project + 1].tasks[task + 1] = push_state(@, state)]
             task_id == At(At(pushed, project).tasks, task).id
             sorted == [pushed EXCEPT ![project + 1].tasks = sort_tasks(@)]
         IN  Done(sorted, save_ok, task_position(At(sorted, project).tasks, task_id))
    ELSE [projects |-> ps, write |-> "none", ok |-> TRUE, ret |-> None]

\* (mutant) the project is pushed and Ok(()) returned without a save
add_project_unsaved(ps, project, save_ok) ==
    [projects |-> Append(ps, project), write |-> "none", ok |-> TRUE, ret |-> None]

add_project(ps, project, save_ok) == Done(Append(ps, project), save_ok, None)

\* (mutant) the position returned is the index the task was pushed at
add_task_pushed_index(ps, project, task, save_ok) ==
    LET pushed == [ps EXCEPT ![project + 1].tasks = Append(@, task)]
        sorted == [pushed EXCEPT ![project + 1].tasks = sort_tasks(@)]
    IN  Done(sorted, save_ok, Some(Len(At(ps, project).tasks)))

add_task(ps, project, task, save_ok) ==
    LET pushed == [ps EXCEPT ![project + 1].tasks = Append(@, task)]
        sorted == [pushed EXCEPT ![project + 1].tasks = sort_tasks(@)]
    IN  Done(sorted, save_ok, task_position(At(sorted, project).tasks, task.id))

remove_project(ps, project, save_ok) == Done(Remove(ps, project), save_ok, None)

remove_task(ps, project, task, save_ok) ==
    Done([ps EXCEPT ![project + 1].tasks = Remove(@, task)], save_ok, None)

swap_projects(ps, first, second, save_ok) == Done(Swap(ps, first, second), save_ok, None)

\* (mutant) the tasks are not sorted again after the swap
swap_tasks_unsorted(ps, project, first, second, save_ok) ==
    Done([ps EXCEPT ![project + 1].tasks = Swap(@, first, second)], save_ok, None)

swap_tasks(ps, project, first, second, save_ok) ==
    Done([ps EXCEPT ![project + 1].tasks = sort_tasks(Swap(@, first, second))],
         save_ok, None)

----------------------------------------------------------------------------
(* A caller of Database: every index it passes is valid; after an Err it    *)
(* calls save() again before anything else.                                 *)

Indices(seq) == 0..(Len(seq) - 1)

Called(op, project, task, other, state, r) ==
    /\ RoomFor(projects, r.projects, MaxChanges + 1)
    /\ projects' = r.projects
    /\ disk' \in (CASE r.write = "ok" -> {Written(r.projects)}
                    [] r.write = "failed" -> FailedWrite(disk)
                    [] OTHER -> {disk})
    /\ call' = [op |-> op, project |-> project, task |-> task, other |-> other,
                state |-> state, ok |-> r.ok, write |-> r.write, ret |-> r.ret]
    /\ UNCHANGED <<context, project_context, status, fault, entered_from, peer>>

DbSave ==
    /\ ~call.ok
    /\ \E save_ok \in BOOLEAN : Called("save", -1, -1, -1, "", save(projects, save_ok))

DbSetTaskState ==
    /\ call.ok
    /\ \E project \in Indices(projects), save_ok \in BOOLEAN :
         \E task \in Indices(At(projects, project).tasks), state \in States :
            LET r == set_task_state(projects, project, task, state, save_ok)
            IN  Reached(r, save_ok) /\ Called("set_task_state", project, task, -1, state, r)

DbAddProject ==
    /\ call.ok
    /\ \E save_ok \in BOOLEAN :
         Called("add_project", -1, -1, -1, "",
                add_project(projects, Project_new(new_v4(ProjectIds(projects)), "a"), save_ok))

DbAddTask ==
    /\ call.ok
    /\ \E project \in Indices(projects), save_ok \in BOOLEAN :
         Called("add_task", project, -1, -1, "",
                add_task(projects, project, Task_new(new_v4(TaskIds(projects)), "a"), save_ok))

DbRemoveProject ==
    /\ call.ok
    /\ \E project \in Indices(projects), save_ok \in BOOLEAN :
         Called("remove_project", project, -1, -1, "",
                remove_project(projects, project, save_ok))

DbRemoveTask ==
    /\ call.ok
    /\ \E project \in Indices(projects), save_ok \in BOOLEAN :
         \E task \in Indices(At(projects, project).tasks) :
            Called("remove_task", project, task, -1, "",
                   remove_task(projects, project, task, save_ok))

DbSwapProjects ==
    /\ call.ok
    /\ \E first \in Indices(projects), second \in Indices(projects), save_ok \in BOOLEAN :
         Called("swap_projects", -1, first, second, "",
                swap_projects(projects, first, second, save_ok))

DbSwapTasks ==
    /\ call.ok
    /\ \E project \in Indices(projects), save_ok \in BOOLEAN :
         \E first \in Indices(At(projects, project).tasks),
            second \in Indices(At(projects, project).tasks) :
            Called("swap_tasks", project, first, second, "",
                   swap_tasks(projects, project, first, second, save_ok))

NextDB ==
    \/ DbSave
    \/ DbSetTaskState
    \/ DbAddProject
    \/ DbAddTask
    \/ DbRemoveProject
    \/ DbRemoveTask
    \/ DbSwapProjects
    \/ DbSwapTasks

SpecDB == Init /\ [][NextDB]_vars

NextAddSet ==
    \/ DbSave
    \/ DbSetTaskState
    \/ DbAddProject
    \/ DbAddTask

SpecAddSet == Init /\ [][NextAddSet]_vars

----------------------------------------------------------------------------
(* Either program, from the empty document: the key loop of main.rs, or a   *)
(* caller of Database who runs no key loop (status "library").              *)

InitLibrary ==
    /\ projects = <<>>
    /\ disk = Written(projects)
    /\ context = Project(HEADER_OFFSET + 1, Len(projects))
    /\ project_context = Project(HEADER_OFFSET + 1, Len(projects))
    /\ status = "library"
    /\ fault = NoFault
    /\ call = NoCall
    /\ entered_from = context
    /\ peer = projects

LibraryCall == status = "library" /\ NextDB

NextAll ==
    \/ Next
    \/ LibraryCall

SpecAll == (Init \/ InitLibrary) /\ [][NextAll]_vars

----------------------------------------------------------------------------
(* Database::task_state on a loaded document: one project with one task,   *)
(* whose events are any sequence the document format can hold.              *)

MaxEvents == 3     \* events of the loaded task

Events ==
    {StateEvent(s) : s \in States} \cup {DescriptionEvent("a"), CommentEvent("c")}

EventSeqs == UNION {[1..n -> Events] : n \in 0..MaxEvents}

Loaded(events) ==
    <<[Project_new(1, "a") EXCEPT
         !.tasks = <<[id |-> 1, created_at |-> 1, events |-> events]>>]>>

InitEvents ==
    /\ \E events \in EventSeqs : projects = Loaded(events)
    /\ disk = Written(projects)
    /\ context = Project(HEADER_OFFSET + 1, Len(projects))
    /\ project_context = Project(HEADER_OFFSET + 1, Len(projects))
    /\ status = "library"
    /\ fault = NoFault
    /\ call = NoCall
    /\ entered_from = context
    /\ peer = projects

task_state(ps, project, task) == Task_state(At(At(ps, project).tasks, task))

DbTaskState ==
    /\ call.op = "load"
    /\ \E project \in Indices(projects) :
         \E task \in Indices(At(projects, project).tasks) :
            call' = [NoCall EXCEPT !.op = "task_state", !.project = project, !.task = task,
                                   !.state = task_state(projects, project, task)]
    /\ UNCHANGED <<projects, disk, context, project_context, status, fault,
                   entered_from, peer>>

SpecEvents == InitEvents /\ [][DbTaskState]_vars

----------------------------------------------------------------------------
(* Two instances on one document, both started on "[]": this one (projects, *)
(* call) and a second one (peer), each adding projects and tasks and saving.*)
(* Neither locks the file nor reads it again.  Uuid::new_v4 does not repeat across instances: the second        *)
(* instance draws its ids from the negative numbers.                        *)

peer_v4(used) == 0 - new_v4({0 - n : n \in used})

PeerCalled(r) ==
    /\ RoomFor(peer, r.projects, MaxChanges + 1)
    /\ peer' = r.projects
    /\ disk' \in (CASE r.write = "ok" -> {Written(r.projects)}
                    [] r.write = "failed" -> FailedWrite(disk)
                    [] OTHER -> {disk})
    /\ UNCHANGED <<projects, context, project_context, status, fault, call,
                   entered_from>>

PeerAddProject ==
    \E save_ok \in BOOLEAN :
        PeerCalled(add_project(peer, Project_new(peer_v4(ProjectIds(peer)), "a"), save_ok))

PeerAddTask ==
    \E project \in Indices(peer), save_ok \in BOOLEAN :
        PeerCalled(add_task(peer, project, Task_new(peer_v4(TaskIds(peer)), "a"), save_ok))

PeerSave == \E save_ok \in BOOLEAN : PeerCalled(save(peer, save_ok))

NextPeer ==
    \/ PeerAddProject
    \/ PeerAddTask
    \/ PeerSave

NextTwo ==
    \/ DbSave
    \/ DbAddProject
    \/ DbAddTask
    \/ NextPeer

SpecTwo == Init /\ [][NextTwo]_vars

----------------------------------------------------------------------------
(* Claims about the key loop (Spec) *)

\* the ids of the rows of the focused pane, in order
PaneIds(c, pc, ps) ==
    IF c.variant = "Project" THEN [i \in 1..Len(ps) |-> ps[i].id]
    ELSE [j \in 1..Len(At(ps, idx(pc)).tasks) |-> At(ps, idx(pc)).tasks[j].id]

\* the id of the row the cursor is on
FocusId(c, pc, ps) == At(PaneIds(c, pc, ps), idx(c))

\* C1: whenever paneLength > 0, index() = cursorRow - HEADER_OFFSET - 1 lies
\* in [0, paneLength) after every transition.
C1_IndexInPane ==
    (status = "running" /\ context.len > 0) =>
        (context.line - HEADER_OFFSET - 1) \in 0..(context.len - 1)

\* C2: no index used to access the projects or a project's tasks is out of
\* range, and Context::idx is never evaluated with cursorRow <= HEADER_OFFSET.
C2_NoIndexFault == ~fault.out_of_range /\ ~fault.underflow

\* C3: on an empty pane (paneLength = 0) next_line, previous_line and
\* delete_current_line change neither the Context nor the collection.
C3_EmptyPaneNoOp ==
    [][(context.len = 0 /\ (KeyDown \/ KeyUp \/ KeyDelete)) =>
          (context' = context /\ projects' = projects /\ disk' = disk)]_vars

\* C4: leave_context from the Task pane makes the active Context exactly the
\* Context enter_context was called on (same row, same length), whatever was
\* done in the Task pane in between.
C4_LeaveRestores ==
    [][(KeyEsc /\ context.variant = "Task") =>
          (context' = entered_from /\ context'.variant = "Project")]_vars

\* C4 witness: back in the Project pane on the Context a project was entered
\* from, which is not the first row, with a task added while inside.
C4_LeftToSecondRow ==
    /\ status = "running"
    /\ context.variant = "Project"
    /\ context = entered_from
    /\ context.line = HEADER_OFFSET + 2
    /\ InRange(projects, idx(context))
    /\ Len(At(projects, idx(context)).tasks) > 0

\* C5: the row under the cursor after a swap or a state change is the entity
\* that was under it before; after a confirmed add it is the new entity.
C5_CursorFollowsEntity ==
    [][(status' = "running" /\ projects' # projects) =>
          /\ (KeySwap \/ KeyChange) =>
                FocusId(context', project_context', projects')
                    = FocusId(context, project_context, projects)
          /\ KeyAdd =>
                LET new == FocusId(context', project_context', projects')
                    old == PaneIds(context, project_context, projects)
                IN  \A i \in 1..Len(old) : old[i] # new]_vars

\* C5 witness: two projects out of their order of creation, the cursor on the
\* second row, as after swapping the first project down.
C5_SwappedDown ==
    /\ status = "running"
    /\ context = Project(HEADER_OFFSET + 2, 2)
    /\ PaneIds(context, project_context, projects) = <<2, 1>>

\* C6: the active Context's paneLength is the length of the collection its
\* pane shows.
C6_LenMirrorsCollection ==
    status = "running" =>
        /\ context.variant = "Task" =>
              ~idx_underflow(project_context) /\ InRange(projects, idx(project_context))
        /\ context.len = Len(PaneIds(context, project_context, projects))

\* C6 witness: a Task pane that grew to two tasks and shrank to one.
C6_TaskPaneAfterDelete ==
    /\ status = "running"
    /\ context.variant = "Task"
    /\ context.len = 1
    /\ PaneIds(context, project_context, projects) = <<2>>

----------------------------------------------------------------------------
(* Claims about Database (SpecDB, SpecAddSet) *)

\* the arguments of the call a step has just made, read in the state before it
CalledTask == At(At(projects, call'.project).tasks, call'.task)

EventCount(ps) == ChangeCount(ps) + 2 * TaskCount(ps)

TaskPaneOf(project, task) ==
    [c |-> Task(task + HEADER_OFFSET + 1, Len(At(projects, project).tasks)),
     pc |-> Project(project + HEADER_OFFSET + 1, Len(projects))]

\* C7: set_task_state with the state the task already has returns Ok(None),
\* appends no event, leaves the order of the tasks alone and writes nothing;
\* change_status in main.rs does the same when the stepped state is the
\* current one (no event, no write, same Context).
C7_SameStateNoOp ==
    /\ [][(DbSetTaskState /\ call'.state = Task_state(CalledTask)) =>
             /\ call'.ok /\ call'.ret = None /\ call'.write = "none"
             /\ projects' = projects
             /\ disk' = disk]_vars
    /\ [](\A project \in Indices(projects) :
            \A task \in Indices(At(projects, project).tasks) :
              \A change \in {">", "<"}, checks \in BOOLEAN, save_ok \in BOOLEAN :
                LET at == TaskPaneOf(project, task)
                    current == Task_state(At(At(projects, project).tasks, task))
                    o == change_status(at.c, at.pc, projects, change, checks, save_ok)
                IN  stepped_state(change, current) = current =>
                      /\ o.status = "running" /\ o.write = "none"
                      /\ o.projects = projects /\ o.context = at.c)

C7_NoChangeReported ==
    /\ call.op = "set_task_state" /\ call.ok /\ call.write = "none" /\ call.ret = None
    /\ Task_state(At(At(projects, call.project).tasks, call.task)) = call.state
    /\ call.state = "DONE"

\* C8: set_task_state with a state other than the task's current one, when
\* the save succeeds, appends exactly one State event carrying that state to
\* that task and returns Ok(Some(p)), the task at p of the sorted list having
\* the same id and the new state.
C8_ChangeAppendsAndLocates ==
    [][(DbSetTaskState /\ call'.state # Task_state(CalledTask) /\ call'.ok) =>
          /\ call'.ret # None
          /\ LET tasks == At(projects', call'.project).tasks
                 p == call'.ret[1]
             IN  /\ InRange(tasks, p)
                 /\ At(tasks, p).id = CalledTask.id
                 /\ Task_state(At(tasks, p)) = call'.state
                 /\ At(tasks, p).events = Append(CalledTask.events, StateEvent(call'.state))
          /\ EventCount(projects') = EventCount(projects) + 1]_vars

C8_MovedBySort ==
    /\ call.op = "set_task_state" /\ call.ok /\ call.write = "ok"
    /\ call.ret # None /\ call.ret # Some(call.task)

\* C9 (as stated): after add_task calls and any set_task_state calls, two
\* tasks of a project that share a derived state stand in the order they were
\* inserted in (ids are handed out in insertion order here).
C9_InsertionOrder ==
    \A project \in Indices(projects) :
      LET tasks == At(projects, project).tasks
      IN  \A i \in 1..Len(tasks), j \in 1..Len(tasks) :
            (i < j /\ Task_state(tasks[i]) = Task_state(tasks[j])) => tasks[i].id < tasks[j].id

PositionIn(tasks, id) == CHOOSE i \in 1..Len(tasks) : tasks[i].id = id

\* C9 (amended): an add_task or set_task_state call never reorders two tasks
\* that share a derived state after it: they keep the relative order they had
\* just before the call.
C9_CallKeepsOrderOfEqualStates ==
    [][(DbSetTaskState \/ DbAddTask) =>
          \A project \in Indices(projects) :
            LET before == At(projects, project).tasks
                after == At(projects', project).tasks
                known == {before[i].id : i \in 1..Len(before)}
            IN  \A i \in 1..Len(after), j \in 1..Len(after) :
                  (/\ i < j
                   /\ Task_state(after[i]) = Task_state(after[j])
                   /\ after[i].id \in known /\ after[j].id \in known)
                  => PositionIn(before, after[i].id) < PositionIn(before, after[j].id)]_vars

C9_EqualStatesOutOfInsertionOrder ==
    /\ call.op = "set_task_state" /\ call.ok /\ call.ret # None
    /\ \E project \in Indices(projects) :
         LET tasks == At(projects, project).tasks
         IN  /\ Len(tasks) = 2
             /\ Task_state(tasks[1]) = "DONE" /\ Task_state(tasks[2]) = "DONE"
             /\ tasks[1].id > tasks[2].id

----------------------------------------------------------------------------
(* Claims about the Database methods, continued *)

\* `after` is `before` with the entries at i and j exchanged, the rest in place
Exchanged(before, after, i, j) ==
    /\ Len(after) = Len(before)
    /\ At(after, j) = At(before, i)
    /\ At(after, i) = At(before, j)
    /\ \A k \in Indices(before) : (k # i /\ k # j) => At(after, k) = At(before, k)

\* C11: a successful swap_projects(i, j) or swap_tasks(project, i, j) with
\* valid indices leaves the entry formerly at i at j, the entry formerly at
\* j at i, and every other entry where it was.
C11_SwapExchanges ==
    [][/\ (DbSwapProjects /\ call'.ok) =>
             Exchanged(projects, projects', call'.task, call'.other)
       /\ (DbSwapTasks /\ call'.ok) =>
             /\ Len(projects') = Len(projects)
             /\ \A p \in Indices(projects) :
                  IF p = call'.project
                  THEN /\ [At(projects', p) EXCEPT !.tasks = <<>>]
                            = [At(projects, p) EXCEPT !.tasks = <<>>]
                       /\ Exchanged(At(projects, p).tasks, At(projects', p).tasks,
                                    call'.task, call'.other)
                  ELSE At(projects', p) = At(projects, p)]_vars

\* the step returned success to its caller: Ok from a Database method, or the
\* key loop going on to read the next key
Succeeded == IF status = "library" THEN call'.ok ELSE status' = "running"

\* C12: a mutating call (a Database method or a key handler of main.rs) that
\* changes the in-memory collection and returns success has rewritten the
\* document: right after it the document is the serialized collection.
C12_SuccessMeansPersisted ==
    [][(projects' # projects /\ Succeeded) =>
          (disk'.whole /\ disk'.doc = to_string(projects'))]_vars

C12_SwapPersisted ==
    /\ status = "library" /\ call.op = "swap_projects" /\ call.ok /\ call.task # call.other
    /\ Len(projects) = 2 /\ TaskCount(projects) > 0
    /\ disk.whole /\ disk.doc = to_string(projects)

\* C13: when the write fails inside a mutating Database call, the call
\* returns the error, the in-memory mutation stays applied, and the document
\* is left as it was before the call (no partial write); and a mutating call
\* never returns success without having persisted.
C13_FailedWriteLeavesDocument ==
    [][NextDB =>
         /\ ~call'.ok =>
              /\ disk' = disk
              /\ call'.op = "add_project" => Len(projects') = Len(projects) + 1
              /\ call'.op = "remove_project" => Len(projects') = Len(projects) - 1
              /\ call'.op = "add_task" => TaskCount(projects') = TaskCount(projects) + 1
              /\ call'.op = "remove_task" => TaskCount(projects') = TaskCount(projects) - 1
              /\ call'.op = "set_task_state" => EventCount(projects') = EventCount(projects) + 1
         /\ (call'.ok /\ projects' # projects) =>
              (disk'.whole /\ disk'.doc = to_string(projects'))]_vars

----------------------------------------------------------------------------
(* Claims about the event log *)

LastOf(events, kind) ==
    LET at == {i \in 1..Len(events) : events[i].kind = kind}
    IN  IF at = {} THEN None
        ELSE Some(events[CHOOSE i \in at : \A j \in at : j <= i].data)

\* C14: Task::state() is the data of the last State event of the task's
\* event sequence, whatever Description and Comment events lie between or
\* after; without a State event it is TODO.
C14_StateIsLastStateEvent ==
    call.op = "task_state" =>
        LET events == At(At(projects, call.project).tasks, call.task).events
            last == LastOf(events, "State")
        IN  call.state = IF last = None THEN "TODO" ELSE last[1]

C14_StateThenOthers ==
    /\ call.op = "task_state" /\ call.state = "ONGOING"
    /\ At(At(projects, 0).tasks, 0).events
         = <<StateEvent("DONE"), StateEvent("ONGOING"), CommentEvent("c")>>

AllTasks(ps) == UNION {{ps[i].tasks[j] : j \in 1..Len(ps[i].tasks)} : i \in 1..Len(ps)}

\* C15: a task that an operation creates starts with exactly two events,
\* State(TODO) then a Description; and in every state reachable by Database
\* methods or key handlers every task has at least one State event and at
\* least one Description event.
C15_SeedsKept ==
    /\ [][\A t \in AllTasks(projects') :
             t.id \notin TaskIds(projects) =>
                /\ Len(t.events) = 2
                /\ t.events[1] = StateEvent("TODO")
                /\ t.events[2].kind = "Description"]_vars
    /\ [](\A t \in AllTasks(projects) :
             LastOf(t.events, "State") # None /\ LastOf(t.events, "Description") # None)

C15_ChangedByKey ==
    /\ status = "running"
    /\ \E t \in AllTasks(projects) :
         Len(t.events) = 3 /\ t.events[3] = StateEvent("ONGOING")

\* C16: the event log of a task is append-only.  For every operation of
\* either program and every task present before and after it (same id), the
\* events before are a prefix of the events after and created_at is the
\* same; the log grows only in a state change (set_task_state, change_status)
\* and then by exactly one State event.
C16_AppendOnly ==
    [][\A before \in AllTasks(projects), after \in AllTasks(projects') :
          after.id = before.id =>
             /\ after.created_at = before.created_at
             /\ Len(after.events) >= Len(before.events)
             /\ SubSeq(after.events, 1, Len(before.events)) = before.events
             /\ after.events # before.events =>
                  /\ Len(after.events) = Len(before.events) + 1
                  /\ after.events[Len(after.events)].kind = "State"
                  /\ after.events[Len(after.events)].data # Task_state(before)
                  /\ (KeyChange \/ DbSetTaskState)]_vars

C16_TwoChangesLogged ==
    /\ status = "library" /\ call.op = "set_task_state" /\ call.ok
    /\ \E t \in AllTasks(projects) :
         /\ Len(t.events) = 4
         /\ t.events[3] = StateEvent("DONE") /\ t.events[4] = StateEvent("ONGOING")

----------------------------------------------------------------------------
(* Claims about add_task, add_line, two instances and the state steps *)

\* C17: add_task(project, t) with a successful save makes that project one
\* task longer and returns Ok(Some(p)), the task at p of the project after
\* the append and re-sort being t (its id, which no task had before); every
\* other project is unchanged.
C17_AddTaskLocatesTask ==
    [][(DbAddTask /\ call'.ok) =>
          /\ Len(projects') = Len(projects)
          /\ \A p \in Indices(projects) :
               IF p = call'.project
               THEN LET before == At(projects, p).tasks
                        after == At(projects', p).tasks
                    IN  /\ Len(after) = Len(before) + 1
                        /\ call'.ret # None
                        /\ InRange(after, call'.ret[1])
                        /\ At(after, call'.ret[1]).id = new_v4(TaskIds(projects))
                        /\ At(after, call'.ret[1]).id \notin TaskIds(projects)
               ELSE At(projects', p) = At(projects, p)]_vars

C17_AddedBeforeDone ==
    /\ call.op = "add_task" /\ call.ok /\ call.ret # None
    /\ Len(At(projects, call.project).tasks) = 2
    /\ call.ret = Some(0)
    /\ Task_state(At(At(projects, call.project).tasks, 1)) = "DONE"

\* C18: Esc at the prompt of add_line discards the draft: no project or task
\* is created, the document is not written, and the Context is the one
\* before the '+' key.
C18_CancelDiscardsDraft ==
    [][\A keys \in InputLines, save_ok \in BOOLEAN, checks \in BOOLEAN :
          (keys[Len(keys)] = "Esc" /\ Added(keys, save_ok, checks)) =>
             /\ projects' = projects
             /\ disk' = disk
             /\ context' = context /\ project_context' = project_context
             /\ status' = "running"]_vars

C18_CancelInTaskPane ==
    /\ status = "running" /\ context.variant = "Task" /\ context.len = 1
    /\ add_line(context, project_context, projects, <<"a", "Esc">>,
                new_v4(TaskIds(projects)), TRUE, TRUE)
         = Outcome(projects, context, project_context)

DocProjectIds(doc) == {doc[i].id : i \in 1..Len(doc)}

\* C19: with two instances on one document and no locking, each successful
\* save replaces the whole document by the serialization of the saving
\* instance's memory (nothing of the other instance's is merged in), so a
\* lost update is reachable: a project this instance added and persisted
\* successfully is absent from the document after the second instance saved.
C19_SaveRewritesFromOwnMemory ==
    [][/\ ((DbSave \/ DbAddProject \/ DbAddTask) /\ call'.write = "ok") =>
             (disk'.whole /\ disk'.doc = to_string(projects'))
       /\ ((DbSave \/ DbAddProject \/ DbAddTask) /\ call'.write # "ok") =>
             disk' \in FailedWrite(disk)
       /\ NextPeer =>
             \/ disk'.whole /\ disk'.doc = to_string(peer')
             \/ disk' \in FailedWrite(disk)]_vars

C19_LostUpdate ==
    /\ call.op = "add_project" /\ call.ok /\ call.write = "ok"
    /\ disk.whole /\ disk.doc = to_string(peer) /\ peer # <<>>
    /\ ProjectIds(projects) # {}
    /\ ProjectIds(projects) \cap DocProjectIds(disk.doc) = {}

\* the state of the task the Task pane `at` points at, after change_status
StateAfterKey(at, change) ==
    LET o == change_status(at.c, at.pc, projects, change, TRUE, TRUE)
    IN  Task_state(At(At(o.projects, idx(at.pc)).tasks, idx(at.c)))

\* C20: State::next and State::previous step along TODO -> ONGOING -> DONE
\* and clamp at the ends; the '>' and '<' matches of change_status compute
\* the same functions, so one key press never takes a task from TODO to
\* DONE or from DONE to TODO.
C20_StepsClampAndAgree ==
    /\ State_next("TODO") = "ONGOING" /\ State_next("ONGOING") = "DONE"
    /\ State_next("DONE") = "DONE"
    /\ State_previous("DONE") = "ONGOING" /\ State_previous("ONGOING") = "TODO"
    /\ State_previous("TODO") = "TODO"
    /\ \A s \in States : /\ stepped_state(">", s) = State_next(s)
                         /\ stepped_state("<", s) = State_previous(s)
    /\ \A project \in Indices(projects) :
         \A task \in Indices(At(projects, project).tasks) :
            LET at == TaskPaneOf(project, task)
                current == Task_state(At(At(projects, project).tasks, task))
            IN  /\ StateAfterKey(at, ">") = State_next(current)
                /\ StateAfterKey(at, "<") = State_previous(current)
                /\ \A change \in {">", "<"} :
                     {current, StateAfterKey(at, change)} # {"TODO", "DONE"}

C20_DoneClampsAndStepsBack ==
    \E project \in Indices(projects) :
      \E task \in Indices(At(projects, project).tasks) :
         /\ Task_state(At(At(projects, project).tasks, task)) = "DONE"
         /\ StateAfterKey(TaskPaneOf(project, task), ">") = "DONE"
         /\ StateAfterKey(TaskPaneOf(project, task), "<") = "ONGOING"

----------------------------------------------------------------------------
(* Claims about the handlers of the key loop, continued *)

\* the collection the pane of c lists
PaneOf(c, pc, ps) == IF c.variant = "Project" THEN ps ELSE At(ps, idx(pc)).tasks

\* C21: delete_current_line on a Context with len > 0 (the document being
\* written) removes exactly the entity at the cursor's index and returns a
\* Context of the same variant, one shorter and one row up.
C21_DeleteRemovesAtCursor ==
    [][(KeyDelete /\ context.len > 0 /\ status' # "io_error") =>
          /\ status' = "running"
          /\ context' = [variant |-> context.variant, line |-> context.line - 1,
                         len |-> context.len - 1]
          /\ LET before == PaneOf(context, project_context, projects)
                 after == PaneOf(context', project_context', projects')
                 i == context.line - HEADER_OFFSET - 1
             IN  /\ InRange(before, i)
                 /\ Len(after) = Len(before) - 1
                 /\ \A k \in Indices(after) :
                      At(after, k) = At(before, IF k < i THEN k ELSE k + 1)]_vars

\* the cursor of c is on a row of its pane
ValidCursor(c) == (c.line - HEADER_OFFSET - 1) \in 0..(c.len - 1)

\* C22: movement clamps and never wraps.  With a valid cursor, next_line and
\* previous_line return the Context one row further if the index stays in
\* [0, len), and the Context unchanged otherwise; they never change len or the
\* variant.
C22_MovementClamps ==
    [][/\ (KeyDown /\ ValidCursor(context)) =>
             context' = IF context.line - HEADER_OFFSET - 1 + 1 < context.len
                        THEN [context EXCEPT !.line = context.line + 1]
                        ELSE context
       /\ (KeyUp /\ ValidCursor(context)) =>
             context' = IF context.line - HEADER_OFFSET - 1 - 1 >= 0
                        THEN [context EXCEPT !.line = context.line - 1]
                        ELSE context
       /\ (KeyDown \/ KeyUp) =>
             /\ context'.len = context.len /\ context'.variant = context.variant
             /\ status' = "running" /\ projects' = projects]_vars

C22_OnLastRowOfTwo ==
    /\ status = "running" /\ context.variant = "Task" /\ context.len = 2
    /\ context.line = HEADER_OFFSET + 2
    /\ next_line(context) = context
    /\ previous_line(context) = Task(HEADER_OFFSET + 1, 2)

\* C23: enter_context from a Project Context yields Task(HEADER_OFFSET + 1,
\* number of tasks of the project at the cursor's index) and remembers the
\* Project Context; enter_context from a Task Context and leave_context from
\* a Project Context leave the Context and the remembered Project Context
\* unchanged.
C23_TransitionsRespectVariant ==
    [][/\ (KeyEnter /\ context.variant = "Project") =>
             /\ status' = "running"
             /\ context' = Task(HEADER_OFFSET + 1,
                                Len(At(projects, context.line - HEADER_OFFSET - 1).tasks))
             /\ project_context' = context
       /\ ((KeyEnter /\ context.variant = "Task") \/ (KeyEsc /\ context.variant = "Project")) =>
             /\ status' = "running"
             /\ context' = context
             /\ project_context' = project_context]_vars

\* C24: in the key loop, after a '>' or '<' key in the Task pane that changes
\* the focused task's state, the tasks of the selected project are sorted by
\* state again (grouped by state).
C24_KeyChangeResorts ==
    [][(KeyChange /\ status' = "running" /\ projects' # projects) =>
          LET tasks == At(projects', idx(project_context')).tasks
          IN  /\ tasks = sort_tasks(tasks)
              /\ \A i \in 1..Len(tasks), j \in 1..Len(tasks) :
                   i < j => StateOrd(Task_state(tasks[i])) <= StateOrd(Task_state(tasks[j]))]_vars

----------------------------------------------------------------------------
(* Claims about the State events and their order *)

StateData(events) ==
    LET states == SelectSeq(events, LAMBDA e : e.kind = "State")
    IN  [i \in 1..Len(states) |-> states[i].data]

\* C25: no redundant State event is appended: in every state reachable
\* through set_task_state or change_status from tasks made by Task::new, two
\* consecutive State events of a task's log (other events between them
\* ignored) carry different states.
C25_NoRepeatedState ==
    \A t \in AllTasks(projects) :
       LET data == StateData(t.events)
       IN  \A i \in 1..(Len(data) - 1) : data[i] # data[i + 1]

C25_BackToTodo ==
    \E t \in AllTasks(projects) : StateData(t.events) = <<"TODO", "ONGOING", "TODO">>

\* C26: the order sort_tasks compares by agrees with the lifecycle: for
\* every state s, s <= s.next() and s.previous() <= s, so a call that advances
\* a task's state never moves the task toward the front of its project.
C26_OrderFollowsLifecycle ==
    [][(DbSetTaskState /\ call'.ok /\ call'.ret # None
          /\ call'.state = State_next(Task_state(CalledTask))) =>
          /\ \A s \in States : /\ StateOrd(s) <= StateOrd(State_next(s))
                               /\ StateOrd(State_previous(s)) <= StateOrd(s)
          /\ call'.ret[1] >= call'.task]_vars

============================================================================
